---------------------------- MODULE Spec2Model ----------------------------
(***************************************************************************)
(* Call-control layer of sipjs-book-example-app.                           *)
(*                                                                         *)
(* The repository holds the controller twice: as independent hooks and as  *)
(* one monolithic component.  Each unit has its own specification, and the *)
(* variable impl names the unit a behaviour runs:                          *)
(*   Spec           "useCallSession"   useCallSession (UserAgent variant)  *)
(*                                     with hooks/useAudioStream.ts        *)
(*   SpecConnection "useSipConnection" hooks/useSipConnection.ts           *)
(*   SpecApp        "App"              App.tsx, connection and session in  *)
(*                                     one component                       *)
(*                                                                         *)
(* An async handler runs atomically up to its await; the awaited primitive *)
(* of the signalling stack is then in flight (a record in pending) until   *)
(* the stack settles it, and the resolution together with the handler's    *)
(* continuation (a microtask) is one further atomic step.  The stack may   *)
(* resolve or reject every awaited primitive.                              *)
(***************************************************************************)
EXTENDS Integers, Sequences, FiniteSets, Bags, TLC

\* ------------------------------------------------------------------ bounds
MaxSessions == 2      \* sessions (Inviter / Invitation objects) ever created
MaxClients  == 3      \* SimpleUser clients useSipConnection ever constructs
MaxUserAgents == 1    \* UserAgent clients App ever constructs
MaxPending  == 2      \* awaited primitives and timers in flight at once
MaxDigits   == 2      \* characters of a dialed number or of a keyboard value

\* ------------------------------------------------------------------ values
NULL == 0

ConnectionStatus == {"disconnected", "connecting", "connected", "error"}

CallStatus == {"idle", "calling", "ringing", "in-call", "ending"}

SessionState == {"Initial", "Establishing", "Established", "Terminating", "Terminated"}

\* invitation.remoteIdentity.uri.user: a user part, or undefined
RemoteUsers == {"1001", "undefined"}

\* the literal the code substitutes for an undefined user part
UNKNOWN_CALLER == "fumei"

\* the SimpleUser variant's fixed identifier of an inbound call
INCOMING == "chakushin"

\* strings that are inspected character by character are sequences of characters
WS  == <<"w", "s", ":", "/", "/">>
WSS == <<"w", "s", "s", ":", "/", "/">>

Urls == { WSS \o <<"h">>, WSS \o <<"h", "/", "p">> }

DialedNumbers == { <<>>, <<"1">> }

\* a username or a password: empty or not
Credentials == {"", "u"}

\* SipConfig values handed to connect
\* what the SIP URL field of a config may hold: nothing, a host with or
\* without a ws/wss scheme and a path, a host under another scheme
Addresses == Urls \cup { <<>>, <<"h">>, WS \o <<"h">>, <<"s", ":", "/", "/", "h">> }

Configs == [url : Addresses, username : Credentials, password : Credentials]

\* some keys of DIAL_PAD_BUTTONS
DialPadKeys == {"1", "0", "#"}

\* what the keyboard can put into the number field: the text of the field
\* after an edit, made of dial-pad characters and of a letter
KeyboardValues == UNION { [1..n -> DialPadKeys \cup {"a"}] : n \in 0..MaxDigits }

\* whether `new Web.SimpleUser(serverUri, options)` returns or throws
Constructors == {"returns", "throws"}

\* what session.sessionDescriptionHandler?.peerConnection offers when attach runs
Transports == {"none", "throws", "notracks", "tracks"}

VARIABLES
    impl,                 \* which unit runs
    connectionStatus,     \* Connection State
    simpleUserRef,        \* hooks: client reference (NULL or a client id)
    userAgentRef,         \* app: client reference (NULL or a client id)
    clients,              \* the stack's view of every client constructed so far
    callStatus,           \* Call State
    incomingCallNumber,   \* Remote Party Identifier
    currentSessionRef,    \* Session Handle (NULL or a session id)
    sessions,             \* every session object created so far
    pending,              \* bag of awaited primitives / timers in flight
    srcObject,            \* session whose stream is attached to the sink, or NULL
    thrown,               \* failure the operation that completed last threw to its caller
    recovery,             \* position of a caller that recovers from Error
    constructed,          \* what connect last computed for the client constructor
    isInCallRef,          \* SimpleUser variant: isInCallRef.current
    delegate,             \* SimpleUser variant: whether simpleUser.delegate is set
    dialed,               \* dialedNumber state: a sequence of characters
    clicked               \* handler the call button invoked last, "none" before any

vars == <<impl, connectionStatus, simpleUserRef, userAgentRef, clients,
          callStatus, incomingCallNumber, currentSessionRef, sessions,
          pending, srcObject, thrown, recovery, constructed, isInCallRef,
          delegate, dialed, clicked>>

callerVars == <<thrown, recovery>>

simpleUserVars == <<isInCallRef, delegate>>

uiVars == <<dialed, clicked>>

connVars == <<connectionStatus, simpleUserRef, userAgentRef, clients>>
callVars == <<callStatus, incomingCallNumber, currentSessionRef, sessions, srcObject>>

\* ----------------------------------------------------------------- helpers
HasPrefix(s, p) == Len(s) >= Len(p) /\ SubSeq(s, 1, Len(p)) = p

\* url.replace(/^(ws|wss):\/\//, '')
StripScheme(url) ==
    IF HasPrefix(url, WS) THEN SubSeq(url, Len(WS) + 1, Len(url))
    ELSE IF HasPrefix(url, WSS) THEN SubSeq(url, Len(WSS) + 1, Len(url))
    ELSE url

\* UserAgent.makeURI(`sip:${user}@${host}`) yields a URI only for a
\* well-formed host part: non-empty and without a path separator
makeURI(user, host) ==
    /\ user # <<>>
    /\ host # <<>>
    /\ \A i \in 1..Len(host) : host[i] # "/"

Await(op, id) == [op |-> op, id |-> id]

Awaiting(op, id) == BagIn(Await(op, id), pending)

CanAwait == BagCardinality(pending) < MaxPending

Push(p) == pending (+) SetToBag({p})
Pop(p)  == pending (-) SetToBag({p})

\* a session object; target is the destination identity an Inviter was made
\* with, <<user, host>>
NewSession(kind) == [kind |-> kind, state |-> "Initial", target |-> <<>>]

IsInvitation(s) == s # NULL /\ sessions[s].kind = "Invitation"
IsInviter(s)    == s # NULL /\ sessions[s].kind = "Inviter"

\* the stack delivers invitations through a client that has been started
SomeClientStarted == \E c \in 1..Len(clients) : clients[c] = "started"

\* useSipConfig.isSipConfigValid
isSipConfigValid(sipConfig) ==
    sipConfig.url # <<>> /\ sipConfig.username # "" /\ sipConfig.password # ""

\* serverUri that puts wss:// in front of every address
serverUri_AlwaysPrepends(url) == WSS \o url

\* connect: config.url with wss:// put in front unless it starts with ws://
\* or wss://
serverUri(url) ==
    IF HasPrefix(url, WS) \/ HasPrefix(url, WSS) THEN url ELSE WSS \o url

\* 'a/b/c'.split('/')[0]
BeforeSlash(str) ==
    IF \E i \in 1..Len(str) : str[i] = "/"
    THEN SubSeq(str, 1, (CHOOSE i \in 1..Len(str) :
                            /\ str[i] = "/"
                            /\ \A j \in 1..(i - 1) : str[j] # "/") - 1)
    ELSE str

\* connect: the domain of the aor the client registers under
domain(url) == BeforeSlash(StripScheme(url))

\* makeCall, handleCall: the destination identity handed to makeURI and to
\* the Inviter, <<user, host>>
targetUri(dialedNumber, url) == <<dialedNumber, StripScheme(url)>>

\* no constructor call has been prepared yet
NoClient == [url |-> <<>>, serverUri |-> <<>>, domain |-> <<>>]

\* a caller that sees Error awaits disconnect() and then connect(config);
\* recovery is where that caller stands and the client it waits for
NoRecovery == [step |-> "none", c |-> NULL]

DisconnectInFlight == \E c \in 1..Len(clients) : Awaiting("disconnect", c)

\* the caller's position after a call of disconnect(): it starts recovering
\* when the state is Error; any other call of disconnect() is not its own
AfterDisconnectCall ==
    IF recovery.step \in {"none", "done"} /\ connectionStatus = "error" /\ ~DisconnectInFlight
    THEN IF simpleUserRef = NULL
         THEN [step |-> "disconnected", c |-> NULL]
         ELSE [step |-> "disconnecting", c |-> simpleUserRef]
    ELSE NoRecovery

\* the caller's position after disconnect() of client c settled
AfterDisconnectSettled(c, ok) ==
    IF recovery.step = "disconnecting" /\ recovery.c = c
    THEN IF ok THEN [step |-> "disconnected", c |-> NULL] ELSE NoRecovery
    ELSE IF recovery.step = "done" THEN NoRecovery ELSE recovery

\* the caller's position after a call of connect() that made client c
\* (NULL when the constructor threw)
AfterConnectCall(c) ==
    IF recovery.step = "disconnected" /\ c # NULL
    THEN [step |-> "connecting", c |-> c]
    ELSE NoRecovery

\* the caller's position after connect() of client c settled
AfterConnectSettled(c, ok) ==
    IF recovery.step = "connecting" /\ recovery.c = c
    THEN IF ok THEN [step |-> "done", c |-> c] ELSE NoRecovery
    ELSE IF recovery.step = "done" THEN NoRecovery ELSE recovery

\* -------------------------------------------------------------------- Init
InitUnit(unit) ==
    /\ impl = unit
    /\ connectionStatus = "disconnected"
    /\ simpleUserRef = NULL
    /\ userAgentRef = NULL
    /\ clients = <<>>
    /\ callStatus = "idle"
    /\ incomingCallNumber = ""
    /\ currentSessionRef = NULL
    /\ sessions = <<>>
    /\ pending = EmptyBag
    /\ srcObject = NULL
    /\ thrown = "none"
    /\ recovery = NoRecovery
    /\ constructed = NoClient
    /\ isInCallRef = FALSE
    /\ delegate = FALSE
    /\ dialed = <<>>
    /\ clicked = "none"

\* ------------------------------------------------------------ Media Bridge
\* setupAudioSession without its `getTracks().length > 0` test
setupAudioSession_AttachesEmpty(session, transport, cur) ==
    IF session = NULL THEN cur
    ELSE IF transport \in {"notracks", "tracks"} THEN session
    ELSE cur

\* useAudioStream.setupAudioSession: the sink's source after the call (an
\* absent session, or a transport that throws while its receivers are read,
\* makes the body throw into its own catch)
setupAudioSession(session, transport, cur) ==
    IF session = NULL THEN cur
    ELSE IF transport = "tracks" THEN session
    ELSE cur

\* App.setupAudioSession
setupAudioSessionApp(session, transport, cur) ==
    IF session = NULL THEN cur
    ELSE IF transport = "tracks" THEN session
    ELSE cur

\* ------------------------------------------------------- useSipConnection
\* connect(config) up to `await simpleUser.connect()`, or to the end of its
\* catch when the constructor throws; only an incomplete config can make
\* the constructor throw
connect(config, constructor) ==
    /\ impl = "useSipConnection"
    /\ (constructor = "throws") => ~isSipConfigValid(config)
    /\ constructed' = [url |-> config.url, serverUri |-> serverUri(config.url),
                       domain |-> domain(config.url)]
    /\ IF constructor = "throws"
       THEN /\ connectionStatus' = "error"
            /\ simpleUserRef' = NULL
            /\ thrown' = "connect"
            /\ recovery' = AfterConnectCall(NULL)
            /\ UNCHANGED <<clients, pending>>
       ELSE /\ Len(clients) < MaxClients
            /\ CanAwait
            /\ connectionStatus' = "connecting"
            /\ simpleUserRef' = Len(clients) + 1
            /\ clients' = Append(clients, "starting")
            /\ pending' = Push(Await("connect", Len(clients) + 1))
            /\ recovery' = AfterConnectCall(Len(clients) + 1)
            /\ UNCHANGED thrown
    /\ UNCHANGED <<uiVars, simpleUserVars, impl, userAgentRef, callVars>>

\* connect whose catch logs the failure and does not rethrow it
connectSettled_Swallows(c, ok) ==
    /\ impl = "useSipConnection"
    /\ Awaiting("connect", c)
    /\ pending' = Pop(Await("connect", c))
    /\ IF ok
       THEN /\ connectionStatus' = "connected"
            /\ UNCHANGED simpleUserRef
            /\ clients' = [clients EXCEPT ![c] = IF @ = "starting" THEN "started" ELSE @]
       ELSE /\ connectionStatus' = "error"
            /\ simpleUserRef' = NULL
            /\ clients' = [clients EXCEPT ![c] = IF @ = "starting" THEN "failed" ELSE @]
    /\ thrown' = "none"
    /\ recovery' = AfterConnectSettled(c, ok)
    /\ UNCHANGED <<constructed, uiVars, simpleUserVars, impl, userAgentRef, callVars>>

\* settlement of simpleUser.connect() and the rest of connect
connectSettled(c, ok) ==
    /\ impl = "useSipConnection"
    /\ Awaiting("connect", c)
    /\ pending' = Pop(Await("connect", c))
    /\ IF ok
       THEN /\ connectionStatus' = "connected"
            /\ UNCHANGED simpleUserRef
            /\ clients' = [clients EXCEPT ![c] = IF @ = "starting" THEN "started" ELSE @]
            /\ thrown' = "none"
       ELSE /\ connectionStatus' = "error"
            /\ simpleUserRef' = NULL
            /\ clients' = [clients EXCEPT ![c] = IF @ = "starting" THEN "failed" ELSE @]
            /\ thrown' = "connect"
    /\ recovery' = AfterConnectSettled(c, ok)
    /\ UNCHANGED <<constructed, uiVars, simpleUserVars, impl, userAgentRef, callVars>>

\* disconnect() up to `await simpleUserRef.current.disconnect()`, or to its
\* end when there is no client
disconnect ==
    /\ impl = "useSipConnection"
    /\ IF simpleUserRef # NULL
       THEN /\ CanAwait
            /\ pending' = Push(Await("disconnect", simpleUserRef))
            /\ UNCHANGED <<connectionStatus, thrown>>
       ELSE /\ connectionStatus' = "disconnected"
            /\ thrown' = "none"
            /\ UNCHANGED pending
    /\ recovery' = AfterDisconnectCall
    /\ UNCHANGED <<constructed, uiVars, simpleUserVars, impl, simpleUserRef, userAgentRef, clients, callVars>>

\* settlement of simpleUser.disconnect() and the rest of disconnect
disconnectSettled(c, ok) ==
    /\ impl = "useSipConnection"
    /\ Awaiting("disconnect", c)
    /\ pending' = Pop(Await("disconnect", c))
    /\ IF ok
       THEN /\ simpleUserRef' = NULL
            /\ connectionStatus' = "disconnected"
            /\ clients' = [clients EXCEPT ![c] = "stopped"]
            /\ thrown' = "none"
       ELSE /\ connectionStatus' = "error"
            /\ thrown' = "disconnect"
            /\ UNCHANGED <<simpleUserRef, clients>>
    /\ recovery' = AfterDisconnectSettled(c, ok)
    /\ UNCHANGED <<constructed, uiVars, simpleUserVars, impl, userAgentRef, callVars>>

\* --------------------------------------------------------- useCallSession
\* handleSessionStateChange without its Terminated case
handleSessionStateChange_NoTerminated(state, session, transport) ==
    CASE state = "Established" ->
            /\ callStatus' = "in-call"
            /\ srcObject' = setupAudioSession(session, transport, srcObject)
            /\ UNCHANGED <<currentSessionRef, incomingCallNumber>>
      [] state = "Establishing" ->
            /\ callStatus' = "calling"
            /\ UNCHANGED <<currentSessionRef, incomingCallNumber, srcObject>>
      [] OTHER ->
            UNCHANGED <<callStatus, currentSessionRef, incomingCallNumber, srcObject>>

\* handleSessionStateChange(state, session): the listener's effect on
\* <<callStatus, currentSessionRef, incomingCallNumber, srcObject>>
handleSessionStateChange(state, session, transport) ==
    CASE state = "Established" ->
            /\ callStatus' = "in-call"
            /\ srcObject' = setupAudioSession(session, transport, srcObject)
            /\ UNCHANGED <<currentSessionRef, incomingCallNumber>>
      [] state = "Establishing" ->
            /\ callStatus' = "calling"
            /\ UNCHANGED <<currentSessionRef, incomingCallNumber, srcObject>>
      [] state = "Terminated" ->
            /\ callStatus' = "idle"
            /\ currentSessionRef' = NULL
            /\ incomingCallNumber' = ""
            /\ UNCHANGED srcObject
      [] OTHER ->
            UNCHANGED <<callStatus, currentSessionRef, incomingCallNumber, srcObject>>

\* makeCall(dialedNumber, userAgent, sipConfig) up to `await inviter.invite()`
makeCall(dialedNumber, userAgent, url) ==
    /\ impl = "useCallSession"
    /\ IF userAgent = NULL \/ dialedNumber = <<>>
       THEN UNCHANGED <<callVars, pending>>
       ELSE IF ~makeURI(targetUri(dialedNumber, url)[1], targetUri(dialedNumber, url)[2])
       THEN /\ callStatus' = "idle"
            /\ currentSessionRef' = NULL
            /\ UNCHANGED <<incomingCallNumber, sessions, srcObject, pending>>
       ELSE /\ Len(sessions) < MaxSessions
            /\ CanAwait
            /\ callStatus' = "calling"
            /\ currentSessionRef' = Len(sessions) + 1
            /\ sessions' = Append(sessions, [NewSession("Inviter") EXCEPT
                                                !.target = targetUri(dialedNumber, url)])
            /\ pending' = Push(Await("invite", Len(sessions) + 1))
            /\ UNCHANGED <<incomingCallNumber, srcObject>>
    /\ UNCHANGED <<callerVars, constructed, uiVars, simpleUserVars, impl, connVars>>

\* settlement of inviter.invite() and the rest of makeCall
makeCallSettled(s, ok) ==
    /\ impl = "useCallSession"
    /\ Awaiting("invite", s)
    /\ pending' = Pop(Await("invite", s))
    /\ IF ok
       THEN UNCHANGED <<callStatus, currentSessionRef>>
       ELSE /\ callStatus' = "idle"
            /\ currentSessionRef' = NULL
    /\ UNCHANGED <<callerVars, constructed, uiVars, simpleUserVars, impl, connVars, incomingCallNumber, sessions, srcObject>>

\* answerCall() up to `await currentSessionRef.current.accept()`
answerCall ==
    /\ impl = "useCallSession"
    /\ IF IsInvitation(currentSessionRef)
       THEN /\ CanAwait
            /\ pending' = Push(Await("accept", currentSessionRef))
       ELSE UNCHANGED pending
    /\ UNCHANGED <<callerVars, constructed, uiVars, simpleUserVars, impl, connVars, callVars>>

\* answerCall in which a failing attach throws into answerCall's catch
answerCallSettled_AttachThrows(s, ok, transport) ==
    /\ impl = "useCallSession"
    /\ Awaiting("accept", s)
    /\ pending' = Pop(Await("accept", s))
    /\ IF ok /\ transport \notin {"none", "throws"}
       THEN /\ callStatus' = "in-call"
            /\ srcObject' = setupAudioSession(currentSessionRef, transport, srcObject)
       ELSE /\ callStatus' = "idle"
            /\ UNCHANGED srcObject
    /\ UNCHANGED <<callerVars, constructed, uiVars, simpleUserVars, impl, connVars, incomingCallNumber, currentSessionRef, sessions>>

\* settlement of accept() and the rest of answerCall
answerCallSettled(s, ok, transport) ==
    /\ impl = "useCallSession"
    /\ Awaiting("accept", s)
    /\ pending' = Pop(Await("accept", s))
    /\ IF ok
       THEN /\ callStatus' = "in-call"
            /\ srcObject' = setupAudioSession(currentSessionRef, transport, srcObject)
       ELSE /\ callStatus' = "idle"
            /\ UNCHANGED srcObject
    /\ UNCHANGED <<callerVars, constructed, uiVars, simpleUserVars, impl, connVars, incomingCallNumber, currentSessionRef, sessions>>

\* hangupCall() up to `await currentSessionRef.current.bye()`
hangupCall ==
    /\ impl = "useCallSession"
    /\ IF currentSessionRef # NULL
       THEN /\ CanAwait
            /\ callStatus' = "ending"
            /\ pending' = Push(Await("bye", currentSessionRef))
       ELSE UNCHANGED <<callStatus, pending>>
    /\ UNCHANGED <<callerVars, constructed, uiVars, simpleUserVars, impl, connVars, incomingCallNumber, currentSessionRef, sessions, srcObject>>

\* hangupCall's continuation forgetting to clear the handle after bye()
hangupCallSettled_KeepsHandle(s, ok) ==
    /\ impl = "useCallSession"
    /\ Awaiting("bye", s)
    /\ pending' = Pop(Await("bye", s))
    /\ callStatus' = "idle"
    /\ incomingCallNumber' = (IF ok THEN "" ELSE incomingCallNumber)
    /\ UNCHANGED <<callerVars, constructed, uiVars, simpleUserVars, impl, connVars, currentSessionRef, sessions, srcObject>>

\* settlement of bye() and the rest of hangupCall
hangupCallSettled(s, ok) ==
    /\ impl = "useCallSession"
    /\ Awaiting("bye", s)
    /\ pending' = Pop(Await("bye", s))
    /\ IF ok
       THEN /\ currentSessionRef' = NULL
            /\ callStatus' = "idle"
            /\ incomingCallNumber' = ""
       ELSE /\ callStatus' = "idle"
            /\ UNCHANGED <<currentSessionRef, incomingCallNumber>>
    /\ UNCHANGED <<callerVars, constructed, uiVars, simpleUserVars, impl, connVars, sessions, srcObject>>

\* handleIncomingCall storing the user part as it is, without `?? '不明'`
handleIncomingCall_NoPlaceholder(user) ==
    /\ impl = "useCallSession"
    /\ Len(sessions) < MaxSessions
    /\ incomingCallNumber' = user
    /\ callStatus' = "ringing"
    /\ currentSessionRef' = Len(sessions) + 1
    /\ sessions' = Append(sessions, NewSession("Invitation"))
    /\ UNCHANGED <<callerVars, constructed, uiVars, simpleUserVars, impl, connVars, pending, srcObject>>

\* handleIncomingCall(invitation)
handleIncomingCall(user) ==
    /\ impl = "useCallSession"
    /\ Len(sessions) < MaxSessions
    /\ incomingCallNumber' = (IF user = "undefined" THEN UNKNOWN_CALLER ELSE user)
    /\ callStatus' = "ringing"
    /\ currentSessionRef' = Len(sessions) + 1
    /\ sessions' = Append(sessions, NewSession("Invitation"))
    /\ UNCHANGED <<callerVars, constructed, uiVars, simpleUserVars, impl, connVars, pending, srcObject>>

\* ----------------------------------------- useCallSession over SimpleUser
\* the session the SimpleUser holds: it keeps at most one, until Terminated
LiveSession ==
    IF \E s \in 1..Len(sessions) : sessions[s].state # "Terminated"
    THEN CHOOSE s \in 1..Len(sessions) : sessions[s].state # "Terminated"
    ELSE NULL

\* makeCall(dialedNumber, simpleUser) up to `await simpleUser.call(targetUri)`;
\* call() makes an Inviter when the SimpleUser holds no session
makeCallSimpleUser(dialedNumber, simpleUser) ==
    /\ impl = "useCallSessionSimpleUser"
    /\ IF simpleUser = NULL \/ dialedNumber = <<>>
       THEN UNCHANGED <<callStatus, sessions, pending>>
       ELSE /\ CanAwait
            /\ callStatus' = "calling"
            /\ IF LiveSession = NULL
               THEN /\ Len(sessions) < MaxSessions
                    /\ sessions' = Append(sessions, [NewSession("Inviter") EXCEPT
                                                        !.target = <<dialedNumber, <<>> >>])
                    /\ pending' = Push(Await("call", Len(sessions) + 1))
               ELSE /\ pending' = Push(Await("call", NULL))
                    /\ UNCHANGED sessions
    /\ UNCHANGED <<callerVars, constructed, uiVars, simpleUserVars, impl, connVars,
                   incomingCallNumber, currentSessionRef, srcObject>>

\* settlement of simpleUser.call() and the rest of makeCall; call() on a
\* SimpleUser that already holds a session (s = NULL) rejects
makeCallSimpleUserSettled(s, ok) ==
    /\ impl = "useCallSessionSimpleUser"
    /\ Awaiting("call", s)
    /\ ok => s # NULL
    /\ pending' = Pop(Await("call", s))
    /\ IF ok
       THEN /\ isInCallRef' = TRUE
            /\ callStatus' = "in-call"
       ELSE /\ callStatus' = "idle"
            /\ isInCallRef' = FALSE
    /\ UNCHANGED <<callerVars, constructed, uiVars, delegate, impl, connVars,
                   incomingCallNumber, currentSessionRef, sessions, srcObject>>

\* answerCall(simpleUser) up to `await simpleUser.answer()`
answerCallSimpleUser(simpleUser) ==
    /\ impl = "useCallSessionSimpleUser"
    /\ IF simpleUser = NULL
       THEN UNCHANGED pending
       ELSE /\ CanAwait
            /\ pending' = Push(Await("answer", LiveSession))
    /\ UNCHANGED <<callerVars, constructed, uiVars, simpleUserVars, impl, connVars, callVars>>

\* settlement of simpleUser.answer() and the rest of answerCall; answer()
\* without a session (s = NULL) rejects
answerCallSimpleUserSettled(s, ok) ==
    /\ impl = "useCallSessionSimpleUser"
    /\ Awaiting("answer", s)
    /\ ok => s # NULL
    /\ pending' = Pop(Await("answer", s))
    /\ IF ok
       THEN /\ callStatus' = "in-call"
            /\ isInCallRef' = TRUE
       ELSE /\ callStatus' = "idle"
            /\ UNCHANGED isInCallRef
    /\ UNCHANGED <<callerVars, constructed, uiVars, delegate, impl, connVars,
                   incomingCallNumber, currentSessionRef, sessions, srcObject>>

\* hangupCall(simpleUser) up to `await simpleUser.hangup()`
hangupCallSimpleUser(simpleUser) ==
    /\ impl = "useCallSessionSimpleUser"
    /\ IF simpleUser = NULL
       THEN UNCHANGED <<callStatus, pending>>
       ELSE /\ CanAwait
            /\ callStatus' = "ending"
            /\ pending' = Push(Await("hangup", LiveSession))
    /\ UNCHANGED <<callerVars, constructed, uiVars, simpleUserVars, impl, connVars,
                   incomingCallNumber, currentSessionRef, sessions, srcObject>>

\* settlement of simpleUser.hangup() and the rest of hangupCall; hangup()
\* without a session (s = NULL) rejects
hangupCallSimpleUserSettled(s, ok) ==
    /\ impl = "useCallSessionSimpleUser"
    /\ Awaiting("hangup", s)
    /\ ok => s # NULL
    /\ pending' = Pop(Await("hangup", s))
    /\ IF ok
       THEN /\ isInCallRef' = FALSE
            /\ callStatus' = "idle"
            /\ incomingCallNumber' = ""
       ELSE /\ callStatus' = "idle"
            /\ UNCHANGED <<isInCallRef, incomingCallNumber>>
    /\ UNCHANGED <<callerVars, constructed, uiVars, delegate, impl, connVars,
                   currentSessionRef, sessions, srcObject>>

\* handleIncomingCall(simpleUser): installs the delegate
handleIncomingCallSimpleUser(simpleUser) ==
    /\ impl = "useCallSessionSimpleUser"
    /\ delegate' = (IF simpleUser = NULL THEN delegate ELSE TRUE)
    /\ UNCHANGED <<callerVars, constructed, uiVars, isInCallRef, impl, connVars, callVars, pending>>

\* the SimpleUser, holding no session, receives an invitation and calls
\* delegate.onCallReceived if a delegate is installed
onCallReceived ==
    /\ impl = "useCallSessionSimpleUser"
    /\ LiveSession = NULL
    /\ Len(sessions) < MaxSessions
    /\ sessions' = Append(sessions, NewSession("Invitation"))
    /\ IF delegate
       THEN /\ callStatus' = "ringing"
            /\ incomingCallNumber' = INCOMING
       ELSE UNCHANGED <<callStatus, incomingCallNumber>>
    /\ UNCHANGED <<callerVars, constructed, uiVars, simpleUserVars, impl, connVars,
                   currentSessionRef, pending, srcObject>>

\* delegate.onCallAnswered / delegate.onCallHangup, which the SimpleUser
\* calls when its session becomes Established / Terminated: the effect on
\* <<callStatus, incomingCallNumber, isInCallRef>>
delegateCallback(state) ==
    CASE state = "Established" ->
            /\ callStatus' = "in-call"
            /\ isInCallRef' = TRUE
            /\ UNCHANGED incomingCallNumber
      [] state = "Terminated" ->
            /\ callStatus' = "idle"
            /\ isInCallRef' = FALSE
            /\ incomingCallNumber' = ""
      [] OTHER ->
            UNCHANGED <<callStatus, incomingCallNumber, isInCallRef>>

\* -------------------------------------------------------------------- App
\* handleConnect() up to its first await
handleConnect ==
    /\ impl = "App"
    /\ IF connectionStatus = "connected"
       THEN IF userAgentRef # NULL
            THEN /\ CanAwait
                 /\ pending' = Push(Await("stop", userAgentRef))
                 /\ UNCHANGED <<connectionStatus, userAgentRef, clients, callStatus>>
            ELSE /\ connectionStatus' = "disconnected"
                 /\ callStatus' = "idle"
                 /\ UNCHANGED <<userAgentRef, clients, pending>>
       ELSE /\ Len(clients) < MaxUserAgents
            /\ CanAwait
            /\ connectionStatus' = "connecting"
            /\ userAgentRef' = Len(clients) + 1
            /\ clients' = Append(clients, "starting")
            /\ pending' = Push(Await("start", Len(clients) + 1))
            /\ UNCHANGED callStatus
    /\ UNCHANGED <<callerVars, constructed, uiVars, simpleUserVars, impl, simpleUserRef, incomingCallNumber, currentSessionRef, sessions, srcObject>>

\* settlement of userAgent.stop() and the rest of the disconnect branch
handleConnectStopSettled(c, ok) ==
    /\ impl = "App"
    /\ Awaiting("stop", c)
    /\ pending' = Pop(Await("stop", c))
    /\ IF ok
       THEN /\ userAgentRef' = NULL
            /\ connectionStatus' = "disconnected"
            /\ callStatus' = "idle"
            /\ clients' = [clients EXCEPT ![c] = "stopped"]
       ELSE /\ connectionStatus' = "error"
            /\ UNCHANGED <<userAgentRef, callStatus, clients>>
    /\ UNCHANGED <<callerVars, constructed, uiVars, simpleUserVars, impl, simpleUserRef, incomingCallNumber, currentSessionRef, sessions, srcObject>>

\* settlement of userAgent.start() and the rest of the connect branch
handleConnectStartSettled(c, ok) ==
    /\ impl = "App"
    /\ Awaiting("start", c)
    /\ pending' = Pop(Await("start", c))
    /\ IF ok
       THEN /\ connectionStatus' = "connected"
            /\ UNCHANGED userAgentRef
            /\ clients' = [clients EXCEPT ![c] = IF @ = "starting" THEN "started" ELSE @]
       ELSE /\ connectionStatus' = "error"
            /\ userAgentRef' = NULL
            /\ clients' = [clients EXCEPT ![c] = IF @ = "starting" THEN "failed" ELSE @]
    /\ UNCHANGED <<callerVars, constructed, uiVars, simpleUserVars, impl, simpleUserRef, callVars>>

\* the stateChange listener handleCall registers on its inviter
handleCallListener(state, inviter, transport) ==
    CASE state = "Establishing" ->
            /\ callStatus' = "calling"
            /\ UNCHANGED <<currentSessionRef, srcObject>>
      [] state = "Established" ->
            /\ callStatus' = "in-call"
            /\ srcObject' = setupAudioSessionApp(inviter, transport, srcObject)
            /\ UNCHANGED currentSessionRef
      [] state = "Terminated" ->
            /\ callStatus' = "idle"
            /\ currentSessionRef' = NULL
            /\ UNCHANGED srcObject
      [] OTHER ->
            UNCHANGED <<callStatus, currentSessionRef, srcObject>>

\* handleCall() up to `await inviter.invite()`
handleCall(dialedNumber, url) ==
    /\ impl = "App"
    /\ IF userAgentRef = NULL \/ dialedNumber = <<>>
       THEN UNCHANGED <<callVars, pending>>
       ELSE IF ~makeURI(targetUri(dialedNumber, url)[1], targetUri(dialedNumber, url)[2])
       THEN /\ callStatus' = "idle"
            /\ currentSessionRef' = NULL
            /\ UNCHANGED <<incomingCallNumber, sessions, srcObject, pending>>
       ELSE /\ Len(sessions) < MaxSessions
            /\ CanAwait
            /\ callStatus' = "calling"
            /\ currentSessionRef' = Len(sessions) + 1
            /\ sessions' = Append(sessions, [NewSession("Inviter") EXCEPT
                                                !.target = targetUri(dialedNumber, url)])
            /\ pending' = Push(Await("invite", Len(sessions) + 1))
            /\ UNCHANGED <<incomingCallNumber, srcObject>>
    /\ UNCHANGED <<callerVars, constructed, uiVars, simpleUserVars, impl, connVars>>

\* settlement of inviter.invite() and the rest of handleCall
handleCallSettled(s, ok) ==
    /\ impl = "App"
    /\ Awaiting("invite", s)
    /\ pending' = Pop(Await("invite", s))
    /\ IF ok
       THEN UNCHANGED <<callStatus, currentSessionRef>>
       ELSE /\ callStatus' = "idle"
            /\ currentSessionRef' = NULL
    /\ UNCHANGED <<callerVars, constructed, uiVars, simpleUserVars, impl, connVars, incomingCallNumber, sessions, srcObject>>

\* the body of handleAnswerCall() up to `await ...accept()`: the bag of
\* awaited primitives it leaves, starting from the bag p
AnswerFrom(p) ==
    IF IsInvitation(currentSessionRef)
    THEN p (+) SetToBag({Await("accept", currentSessionRef)})
    ELSE p

\* handleAnswerCall() invoked from the call button
handleAnswerCall ==
    /\ impl = "App"
    /\ IsInvitation(currentSessionRef) => CanAwait
    /\ pending' = AnswerFrom(pending)
    /\ UNCHANGED <<callerVars, constructed, uiVars, simpleUserVars, impl, connVars, callVars>>

\* settlement of accept() and the rest of handleAnswerCall
handleAnswerCallSettled(s, ok, transport) ==
    /\ impl = "App"
    /\ Awaiting("accept", s)
    /\ pending' = Pop(Await("accept", s))
    /\ IF ok
       THEN /\ callStatus' = "in-call"
            /\ srcObject' = setupAudioSessionApp(currentSessionRef, transport, srcObject)
       ELSE /\ callStatus' = "idle"
            /\ UNCHANGED srcObject
    /\ UNCHANGED <<callerVars, constructed, uiVars, simpleUserVars, impl, connVars, incomingCallNumber, currentSessionRef, sessions>>

\* handleHangup() up to `await currentSessionRef.current.bye()`
handleHangup ==
    /\ impl = "App"
    /\ IF currentSessionRef # NULL
       THEN /\ CanAwait
            /\ callStatus' = "ending"
            /\ pending' = Push(Await("bye", currentSessionRef))
       ELSE UNCHANGED <<callStatus, pending>>
    /\ UNCHANGED <<callerVars, constructed, uiVars, simpleUserVars, impl, connVars, incomingCallNumber, currentSessionRef, sessions, srcObject>>

\* settlement of bye() and the rest of handleHangup
handleHangupSettled(s, ok) ==
    /\ impl = "App"
    /\ Awaiting("bye", s)
    /\ pending' = Pop(Await("bye", s))
    /\ IF ok
       THEN /\ currentSessionRef' = NULL
            /\ callStatus' = "idle"
            /\ incomingCallNumber' = ""
       ELSE /\ callStatus' = "idle"
            /\ UNCHANGED <<currentSessionRef, incomingCallNumber>>
    /\ UNCHANGED <<callerVars, constructed, uiVars, simpleUserVars, impl, connVars, sessions, srcObject>>

\* delegate.onInvite(invitation): delivered through a started client; arms
\* the one-second auto-answer timer
onInvite(user) ==
    /\ impl = "App"
    /\ SomeClientStarted
    /\ Len(sessions) < MaxSessions
    /\ CanAwait
    /\ incomingCallNumber' = (IF user = "undefined" THEN UNKNOWN_CALLER ELSE user)
    /\ callStatus' = "ringing"
    /\ currentSessionRef' = Len(sessions) + 1
    /\ sessions' = Append(sessions, NewSession("Invitation"))
    /\ pending' = Push(Await("timer", Len(sessions) + 1))
    /\ UNCHANGED <<callerVars, constructed, uiVars, simpleUserVars, impl, connVars, srcObject>>

\* the setTimeout callback armed by onInvite for invitation s
autoAnswer(s) ==
    /\ impl = "App"
    /\ Awaiting("timer", s)
    /\ pending' = AnswerFrom(Pop(Await("timer", s)))
    /\ UNCHANGED <<callerVars, constructed, uiVars, simpleUserVars, impl, connVars, callVars>>

\* ------------------------------------------------- dial pad, call button
\* the character class of validCharactersRegex: [1-9#*] in App, [0-9#*] in
\* useDialer
validCharacters ==
    IF impl = "App"
    THEN {"1", "2", "3", "4", "5", "6", "7", "8", "9", "#", "*"}
    ELSE {"0", "1", "2", "3", "4", "5", "6", "7", "8", "9", "#", "*"}

\* validCharactersRegex.test(value)
validCharactersRegex(value) == \A i \in 1..Len(value) : value[i] \in validCharacters

\* handleDialedNumberChange(value)
handleDialedNumberChange(value) ==
    /\ impl \in {"App", "useDialer"}
    /\ dialed' = (IF validCharactersRegex(value) THEN value ELSE dialed)
    /\ UNCHANGED <<callerVars, constructed, simpleUserVars, clicked, impl, connVars,
                   callVars, pending>>

\* handleDialPadClick(digit)
handleDialPadClick(digit) ==
    /\ impl \in {"App", "useDialer"}
    /\ Len(dialed) < MaxDigits
    /\ dialed' = Append(dialed, digit)
    /\ UNCHANGED <<callerVars, constructed, simpleUserVars, clicked, impl, connVars,
                   callVars, pending>>

\* App.handleClear / useDialer.clearDialedNumber
handleClear ==
    /\ impl \in {"App", "useDialer"}
    /\ dialed' = <<>>
    /\ UNCHANGED <<callerVars, constructed, simpleUserVars, clicked, impl, connVars,
                   callVars, pending>>

\* getCallButtonContent without the connection test of its default case
getCallButtonContent_IgnoresConnection(status, number, connection) ==
    CASE status = "calling" -> [onClick |-> "hangupCall", disabled |-> FALSE]
      [] status = "ending"  -> [onClick |-> "log", disabled |-> TRUE]
      [] status = "in-call" -> [onClick |-> "hangupCall", disabled |-> FALSE]
      [] status = "ringing" -> [onClick |-> "answerCall", disabled |-> FALSE]
      [] OTHER -> [onClick |-> "handleCall", disabled |-> number = <<>>]

\* getCallButtonContent(callStatus, dialedNumber, connectionStatus, handlers):
\* the handler and the disabled flag of the button
getCallButtonContent(status, number, connection) ==
    CASE status = "calling" -> [onClick |-> "hangupCall", disabled |-> FALSE]
      [] status = "ending"  -> [onClick |-> "log", disabled |-> TRUE]
      [] status = "in-call" -> [onClick |-> "hangupCall", disabled |-> FALSE]
      [] status = "ringing" -> [onClick |-> "answerCall", disabled |-> FALSE]
      [] OTHER -> [onClick |-> "handleCall",
                   disabled |-> number = <<>> \/ connection # "connected"]

\* `const buttonContent = getCallButtonContent()` of the render
buttonContent == getCallButtonContent(callStatus, dialed, connectionStatus)

\* a click on the call button: a button that is not disabled runs its
\* onClick (the handler's own steps are those of the call operations)
clickCallButton ==
    /\ impl \in {"App", "useDialer"}
    /\ clicked' = (IF buttonContent.disabled THEN clicked ELSE buttonContent.onClick)
    /\ UNCHANGED <<callerVars, constructed, simpleUserVars, dialed, impl, connVars,
                   callVars, pending>>

\* ------------------------------------------------------ the stack's events
\* whether session s has a stateChange listener
HasListener(s) ==
    CASE impl = "useCallSession" -> TRUE
      [] impl = "App" -> sessions[s].kind = "Inviter"
      [] OTHER -> delegate

\* the order in which a session's stateChange emitter reports states: the
\* stack enters Establishing inside invite()/accept(), Terminating inside
\* bye(), and may report Terminated at any time
CanEmit(s, state) ==
    LET cur == sessions[s].state IN
    CASE state = "Establishing" ->
            /\ cur = "Initial"
            /\ IF sessions[s].kind = "Inviter"
               THEN Awaiting("invite", s) \/ Awaiting("call", s)
               ELSE Awaiting("accept", s) \/ Awaiting("answer", s)
      [] state = "Established"  -> cur = "Establishing"
      [] state = "Terminating"  ->
            cur = "Established" /\ (Awaiting("bye", s) \/ Awaiting("hangup", s))
      [] state = "Terminated"   -> cur # "Terminated"
      [] OTHER -> FALSE

\* session.stateChange emits `state`; the registered listener, if any, runs
stateChange(s, state, transport) ==
    /\ impl \in {"useCallSession", "App", "useCallSessionSimpleUser"}
    /\ s \in 1..Len(sessions)
    /\ CanEmit(s, state)
    /\ sessions' = [sessions EXCEPT ![s].state = state]
    /\ IF ~HasListener(s)
       THEN UNCHANGED <<callStatus, currentSessionRef, incomingCallNumber, srcObject, isInCallRef>>
       ELSE IF impl = "App"
       THEN handleCallListener(state, s, transport) /\ UNCHANGED <<incomingCallNumber, isInCallRef>>
       ELSE IF impl = "useCallSession"
       THEN handleSessionStateChange(state, s, transport) /\ UNCHANGED isInCallRef
       ELSE delegateCallback(state) /\ UNCHANGED <<currentSessionRef, srcObject>>
    /\ UNCHANGED <<callerVars, constructed, uiVars, delegate, impl, connVars, pending>>

\* ---------------------------------------------------------- specifications
\* the userAgent argument of makeCall: none, or some client
UserAgents == {NULL, 1}

Init == InitUnit("useCallSession")

Next ==
    \/ \E d \in DialedNumbers, ua \in UserAgents, url \in Urls : makeCall(d, ua, url)
    \/ \E s \in 1..MaxSessions, ok \in BOOLEAN : makeCallSettled(s, ok)
    \/ answerCall
    \/ \E s \in 1..MaxSessions, ok \in BOOLEAN, t \in Transports : answerCallSettled(s, ok, t)
    \/ hangupCall
    \/ \E s \in 1..MaxSessions, ok \in BOOLEAN : hangupCallSettled(s, ok)
    \/ \E u \in RemoteUsers : handleIncomingCall(u)
    \/ \E s \in 1..MaxSessions, st \in SessionState \ {"Established"} : stateChange(s, st, "none")
    \/ \E s \in 1..MaxSessions, t \in Transports : stateChange(s, "Established", t)

Spec == Init /\ [][Next]_vars

InitConnection == InitUnit("useSipConnection")

NextConnection ==
    \/ \E config \in Configs, constructor \in Constructors : connect(config, constructor)
    \/ \E c \in 1..MaxClients, ok \in BOOLEAN : connectSettled(c, ok)
    \/ disconnect
    \/ \E c \in 1..MaxClients, ok \in BOOLEAN : disconnectSettled(c, ok)

SpecConnection == InitConnection /\ [][NextConnection]_vars

InitApp == InitUnit("App")

NextApp ==
    \/ handleConnect
    \/ \E c \in 1..MaxUserAgents, ok \in BOOLEAN : handleConnectStopSettled(c, ok)
    \/ \E c \in 1..MaxUserAgents, ok \in BOOLEAN : handleConnectStartSettled(c, ok)
    \/ \E d \in DialedNumbers, url \in Urls : handleCall(d, url)
    \/ \E s \in 1..MaxSessions, ok \in BOOLEAN : handleCallSettled(s, ok)
    \/ handleAnswerCall
    \/ \E s \in 1..MaxSessions, ok \in BOOLEAN, t \in Transports : handleAnswerCallSettled(s, ok, t)
    \/ handleHangup
    \/ \E s \in 1..MaxSessions, ok \in BOOLEAN : handleHangupSettled(s, ok)
    \/ \E u \in RemoteUsers : onInvite(u)
    \/ \E s \in 1..MaxSessions : autoAnswer(s)
    \/ \E s \in 1..MaxSessions, st \in SessionState \ {"Established"} : stateChange(s, st, "none")
    \/ \E s \in 1..MaxSessions, t \in Transports : stateChange(s, "Established", t)

SpecApp == InitApp /\ [][NextApp]_vars

InitSimpleUser == InitUnit("useCallSessionSimpleUser")

NextSimpleUser ==
    \/ \E d \in DialedNumbers, su \in UserAgents : makeCallSimpleUser(d, su)
    \/ \E s \in 0..MaxSessions, ok \in BOOLEAN : makeCallSimpleUserSettled(s, ok)
    \/ \E su \in UserAgents : answerCallSimpleUser(su)
    \/ \E s \in 0..MaxSessions, ok \in BOOLEAN : answerCallSimpleUserSettled(s, ok)
    \/ \E su \in UserAgents : hangupCallSimpleUser(su)
    \/ \E s \in 0..MaxSessions, ok \in BOOLEAN : hangupCallSimpleUserSettled(s, ok)
    \/ \E su \in UserAgents : handleIncomingCallSimpleUser(su)
    \/ onCallReceived
    \/ \E s \in 1..MaxSessions, st \in SessionState : stateChange(s, st, "none")

SpecSimpleUser == InitSimpleUser /\ [][NextSimpleUser]_vars

\* the dial pad and the call button of App, for every Call State and
\* Connection State they can be shown in
InitUI ==
    /\ impl = "App"
    /\ connectionStatus \in ConnectionStatus
    /\ callStatus \in CallStatus
    /\ simpleUserRef = NULL
    /\ userAgentRef = NULL
    /\ clients = <<>>
    /\ incomingCallNumber = ""
    /\ currentSessionRef = NULL
    /\ sessions = <<>>
    /\ pending = EmptyBag
    /\ srcObject = NULL
    /\ thrown = "none"
    /\ recovery = NoRecovery
    /\ constructed = NoClient
    /\ isInCallRef = FALSE
    /\ delegate = FALSE
    /\ dialed = <<>>
    /\ clicked = "none"

NextUI ==
    \/ handleClear
    \/ \E value \in KeyboardValues : handleDialedNumberChange(value)
    \/ \E digit \in DialPadKeys : handleDialPadClick(digit)
    \/ clickCallButton

SpecUI == InitUI /\ [][NextUI]_vars

\* ------------------------------------------------------------------ claims
\* steps of the operations, whichever their arguments
Originate     == \E d \in DialedNumbers, ua \in UserAgents, url \in Urls : makeCall(d, ua, url)
OriginateApp  == \E d \in DialedNumbers, url \in Urls : handleCall(d, url)
Inbound       == \E u \in RemoteUsers : handleIncomingCall(u)
\* the stack reports Terminated for session s in this step
Terminated(s) ==
    /\ s \in 1..Len(sessions)
    /\ sessions[s].state # "Terminated"
    /\ sessions'[s].state = "Terminated"
    /\ \E t \in Transports : stateChange(s, "Terminated", t)

\* C1: Call State differs from Idle exactly when the Session Handle is
\* non-null, in every reachable state
C1_HandleIffNotIdle ==
    (callStatus # "idle") <=> (currentSessionRef # NULL)

\* C2: originate while Call State is not Idle leaves Call State and the
\* Session Handle as they were
C2_OriginateRejectedWhenBusy ==
    [][(Originate /\ callStatus # "idle")
        => UNCHANGED <<callStatus, currentSessionRef>>]_vars

\* C3: an invitation arriving while Ringing or InCall leaves Call State, the
\* Session Handle and the Remote Party Identifier as they were
C3_SecondInviteDeclined ==
    [][(Inbound /\ callStatus \in {"ringing", "in-call"})
        => UNCHANGED <<callStatus, currentSessionRef, incomingCallNumber>>]_vars

\* C4: originate while Connection State is not Connected changes no Call
\* State and invokes no outbound-session primitive
C4_OriginateNeedsConnected ==
    [][(OriginateApp /\ connectionStatus # "connected")
        => UNCHANGED <<callStatus, sessions, pending>>]_vars

\* C5: a Terminated event for the active session in a non-Idle Call State
\* results in Call State Idle with the Session Handle cleared
C5_TerminatedEndsInIdle ==
    [][\A s \in 1..MaxSessions :
        (Terminated(s) /\ s = currentSessionRef /\ callStatus # "idle")
            => (callStatus' = "idle" /\ currentSessionRef' = NULL)]_vars

\* the termination primitive of session s settles in this step
ByeSettled(s, ok) == pending' # pending /\ hangupCallSettled(s, ok)

\* the invite of session s fails in this step
InviteFailed(s) == pending' # pending /\ makeCallSettled(s, FALSE)

C7_TerminateEndingThenIdle ==
    /\ (callStatus \in {"calling", "ringing", "in-call"} /\ CanAwait)
        => ENABLED (hangupCall /\ callStatus' = "ending")
    /\ \A s \in 1..Len(sessions) :
        Awaiting("bye", s)
            => ENABLED (hangupCallSettled(s, TRUE)
                        /\ callStatus' = "idle" /\ currentSessionRef' = NULL)

\* C8: terminate() never invokes the end-of-call primitive (bye) on a
\* session that has not been established
C8_ByeOnlyWhenEstablished ==
    [][(hangupCall /\ currentSessionRef # NULL)
        => sessions[currentSessionRef].state = "Established"]_vars

\* C9: an outbound session that is reported Terminated before it was
\* Established, or whose invite fails, leaves Call State Idle; and Call
\* State is Calling only while some session can still report Terminated
C9_NeverStuckInCalling ==
    /\ [][\A s \in 1..Len(sessions) :
            /\ (sessions[s].kind = "Inviter"
                    /\ sessions[s].state \in {"Initial", "Establishing"}
                    /\ Terminated(s))
                => callStatus' = "idle"
            /\ InviteFailed(s) => callStatus' = "idle"]_vars
    /\ [](callStatus = "calling"
            => \E s \in 1..Len(sessions) : sessions[s].state # "Terminated")

\* an outbound session was reported Terminated while its invite was still
\* in flight, and Call State is Idle with no handle
C9_Witness ==
    \E s \in 1..Len(sessions) :
        /\ sessions[s].kind = "Inviter"
        /\ sessions[s].state = "Terminated"
        /\ Awaiting("invite", s)
        /\ callStatus = "idle"
        /\ currentSessionRef = NULL

\* C10: when disconnect has stopped every client that connect created and
\* nothing is in flight any more, Connection State is Disconnected and the
\* client reference is null
C10_ConnectThenDisconnect ==
    (/\ clients # <<>>
     /\ \A c \in 1..Len(clients) : clients[c] = "stopped"
     /\ pending = EmptyBag)
        => (connectionStatus = "disconnected" /\ simpleUserRef = NULL)


\* a call of connect(config), whatever the constructor does
ConnectCalled(config) == \E k \in Constructors : connect(config, k)

\* C11: connect with a config in which address, username or password is
\* empty fails before any suspension: it throws to its caller, leaves
\* Connection State as it was and creates no client
C11_InvalidConfigRejected ==
    [][\A config \in Configs :
        (~isSipConfigValid(config) /\ ConnectCalled(config))
            => (/\ UNCHANGED <<connectionStatus, simpleUserRef, clients, pending>>
                /\ thrown' = "connect")]_vars

\* clients whose start succeeded and that were not stopped
StartedClients == {c \in 1..Len(clients) : clients[c] = "started"}

\* C12: connect while a client is referenced fails without starting a
\* second client, and at most one started, unstopped client exists
C12_NoSecondClient ==
    /\ [][\A config \in Configs :
            (simpleUserRef # NULL /\ ConnectCalled(config))
                => (/\ UNCHANGED <<connectionStatus, simpleUserRef, clients, pending>>
                    /\ thrown' = "connect")]_vars
    /\ [](Cardinality(StartedClients) <= 1)

\* the stop of client c settles in this step
DisconnectSettled(c, ok) == Awaiting("disconnect", c) /\ disconnectSettled(c, ok)

\* the start of client c settles in this step
ConnectSettled(c, ok) == Awaiting("connect", c) /\ connectSettled(c, ok)

\* C13: after a disconnect attempt, whether there was no client, the stop
\* succeeded or the stop failed, the client reference is null
C13_ReferenceNullAfterDisconnect ==
    [][/\ (simpleUserRef = NULL /\ disconnect) => simpleUserRef' = NULL
       /\ \A c \in 1..Len(clients), ok \in BOOLEAN :
            DisconnectSettled(c, ok) => simpleUserRef' = NULL]_vars

\* C14: disconnect() with no client changes nothing and does not fail, and
\* a disconnect whose stop succeeds sets Connection State to Disconnected
\* whatever the state was
C14_DisconnectNoOpOrDisconnected ==
    [][/\ (simpleUserRef = NULL /\ disconnect)
            => (/\ UNCHANGED <<connectionStatus, simpleUserRef, clients, pending>>
                /\ thrown' = "none")
       /\ \A c \in 1..Len(clients) :
            DisconnectSettled(c, TRUE) => connectionStatus' = "disconnected"]_vars

C16_ErrorRecoverable ==
    recovery.step = "done"
        => (connectionStatus = "connected" /\ simpleUserRef = recovery.c)

\* C17: in Idle every originate with a non-empty destination and a client
\* moves Call State to Calling; when the stack then reports Established for
\* that session, Call State moves from Calling to InCall and the Media
\* Bridge attach runs once for it
C17_OriginateThenEstablished ==
    /\ []((callStatus = "idle" /\ Len(sessions) < MaxSessions /\ CanAwait)
            => \A d \in DialedNumbers \ {<<>>}, url \in Urls :
                ENABLED (makeCall(d, 1, url) /\ callStatus' = "calling"))
    /\ [][\A s \in 1..Len(sessions), t \in Transports :
            (/\ s = currentSessionRef
             /\ callStatus = "calling"
             /\ sessions[s].kind = "Inviter"
             /\ sessions'[s].state = "Established"
             /\ stateChange(s, "Established", t))
                => (/\ callStatus' = "in-call"
                    /\ srcObject' = setupAudioSession(s, t, srcObject))]_vars

\* accept() of session s settles in this step
AcceptSettled(s, ok, t) == pending' # pending /\ answerCallSettled(s, ok, t)

C19_AcceptPrecondition ==
    [][(~(callStatus = "ringing" /\ IsInvitation(currentSessionRef)) /\ answerCall)
        => UNCHANGED <<callStatus, pending>>]_vars

\* C20: in Ringing some operation invokes the inbound session's reject
\* primitive, and the completion of a reject returns Call State to Idle
\* with the handle and the Remote Party Identifier cleared
C20_RejectFromRinging ==
    /\ (callStatus = "ringing" /\ IsInvitation(currentSessionRef) /\ CanAwait)
        => ENABLED (Next /\ pending' = Push(Await("reject", currentSessionRef)))
    /\ \A s \in 1..Len(sessions) :
        Awaiting("reject", s)
            => ENABLED (/\ Next
                        /\ pending' = Pop(Await("reject", s))
                        /\ callStatus' = "idle"
                        /\ currentSessionRef' = NULL
                        /\ incomingCallNumber' = "")

\* ------------------------------------------------------------------- C26
\* a step in which some session passes to Established
EstablishedReported ==
    \E s \in 1..Len(sessions) :
        sessions[s].state # "Established" /\ sessions'[s].state = "Established"

\* a step in which the accept/answer primitive of an inbound session settles
AcceptCompleted ==
    \E s \in 1..Len(sessions) :
        /\ sessions[s].kind = "Invitation"
        /\ \/ Awaiting("accept", s) /\ pending' = Pop(Await("accept", s))
           \/ Awaiting("answer", s) /\ pending' = Pop(Await("answer", s))

\* C26: Call State becomes InCall only in a step in which the stack reports
\* Established for a session (or an inbound accept completes); the return of
\* the invite/call primitive of an outbound session never makes it InCall
C26_InCallOnlyOnEstablished ==
    [][(callStatus # "in-call" /\ callStatus' = "in-call")
        => (EstablishedReported \/ AcceptCompleted)]_vars

\* ------------------------------------------------------------------- C21
\* C21: the Remote Party Identifier is empty whenever Call State is Idle,
\* and it is kept as it is by every step between two non-Idle states
C21_IdentifierClearedInIdle ==
    /\ [](callStatus = "idle" => incomingCallNumber = "")
    /\ [][(callStatus # "idle" /\ callStatus' # "idle" /\ incomingCallNumber # "")
            => incomingCallNumber' = incomingCallNumber]_vars

\* ------------------------------------------------------------------- C22
\* C22: whenever a stream is attached to the sink it belongs to the session
\* the handle designates, that session is Established, and Call State is
\* none of Idle, Calling, Ringing
C22_BindingBelongsToEstablished ==
    srcObject # NULL =>
        /\ srcObject = currentSessionRef
        /\ sessions[srcObject].state = "Established"
        /\ callStatus \notin {"idle", "calling", "ringing"}

\* ------------------------------------------------------------------- C23
\* C23: every step that brings Call State back to Idle leaves no stream
\* attached to the sink
C23_BindingReleasedOnIdle ==
    [][(callStatus # "idle" /\ callStatus' = "idle") => srcObject' = NULL]_vars

\* ------------------------------------------------------------------- C24
\* the transports with which attach fails: no peerConnection, or an
\* exception while the receivers are read
AttachFailures == {"none", "throws"}

OriginateBegun(d, url) ==
    /\ d # <<>>
    /\ pending' = pending
    /\ makeCall(d, 1, url)
    /\ ~makeURI(targetUri(d, url)[1], targetUri(d, url)[2])

\* C25: when originate fails after it has begun (no destination identity
\* can be built, or the invite primitive fails) Call State is Idle and the
\* handle null afterwards, and the failure is reported to the caller of
\* originate
C25_OriginateFailureReported ==
    [][(\/ \E s \in 1..Len(sessions) : InviteFailed(s)
        \/ \E d \in DialedNumbers, url \in Urls : OriginateBegun(d, url))
        => (/\ callStatus' = "idle"
            /\ currentSessionRef' = NULL
            /\ thrown' = "originate")]_vars

\* ------------------------------------------------------------------- C27
\* the edges of the Call State machine; a Terminated callback may bring any
\* non-Idle state to Idle
Edges ==
    { <<"idle", "calling">>, <<"calling", "in-call">>, <<"idle", "ringing">>,
      <<"ringing", "in-call">>, <<"ringing", "idle">>, <<"calling", "ending">>,
      <<"ringing", "ending">>, <<"in-call", "ending">>, <<"ending", "idle">>,
      <<"calling", "idle">>, <<"in-call", "idle">> }

\* C27: every step that changes Call State follows an edge of the state
\* machine; in particular none goes from Ringing to Calling, from Idle to
\* InCall or from Ending to InCall
C27_OnlyListedEdges ==
    [][callStatus' # callStatus => <<callStatus, callStatus'>> \in Edges]_vars

\* ------------------------------------------------------------------- C28
\* C28: attach on a session whose transport exposes no inbound track leaves
\* the sink's source as it was: no step that changes the source is an
\* Established report or an accept completion with such a transport
C28_NoTracksNoOp ==
    [][srcObject' # srcObject
        => \A s \in 1..Len(sessions) :
              /\ ~(HasListener(s) /\ stateChange(s, "Established", "notracks"))
              /\ ~answerCallSettled(s, TRUE, "notracks")]_vars

\* a call on an Established session while the sink still holds what it held
\* before that session's attach ran
C28_Witness ==
    /\ callStatus = "in-call"
    /\ currentSessionRef # NULL
    /\ sessions[currentSessionRef].state = "Established"
    /\ srcObject # currentSessionRef
    /\ srcObject # NULL

C30_DestinationAtRegistrarDomain ==
    (Len(sessions) < MaxSessions /\ CanAwait)
        => \A d \in DialedNumbers \ {<<>>}, url \in Urls :
              ENABLED (/\ makeCall(d, 1, url)
                       /\ Len(sessions') = Len(sessions) + 1
                       /\ sessions'[Len(sessions')].target = <<d, domain(url)>>)

\* ------------------------------------------------------------------- C32
\* C32: Connection State Connected implies that the client reference is
\* set, and Connection State Disconnected implies that it is null
C32_StatusMatchesReference ==
    /\ connectionStatus = "connected"
          => (IF impl = "App" THEN userAgentRef ELSE simpleUserRef) # NULL
    /\ connectionStatus = "disconnected"
          => (IF impl = "App" THEN userAgentRef ELSE simpleUserRef) = NULL

\* ------------------------------------------------------------------- C33
\* C33: when the termination primitive of session s settles, or its invite
\* primitive fails, after s was reported Terminated and while the handle
\* designates another session, the handle, Call State and identifier stay
\* as they are
C33_StaleContinuationHarmless ==
    [][\A s \in 1..Len(sessions) :
          (/\ currentSessionRef \notin {NULL, s}
           /\ sessions[s].state = "Terminated"
           /\ \/ ByeSettled(s, TRUE)
              \/ ByeSettled(s, FALSE)
              \/ InviteFailed(s))
          => UNCHANGED <<currentSessionRef, callStatus, incomingCallNumber>>]_vars

\* ------------------------------------------------------------------- C34
\* session s can report Establishing or Established to a listener, which
\* answers either by setting Call State to Calling or InCall
CanStillEstablish(s) ==
    /\ HasListener(s)
    /\ CanEmit(s, "Establishing") \/ CanEmit(s, "Established")

\* C34: once the termination primitive of session s has settled (resolved
\* or rejected) and Call State is back to Idle, s reports no Establishing
\* or Established to the listener any more, so no callback of s moves Call
\* State out of Idle
C34_NoResurrectionAfterTerminate ==
    [][\A s \in 1..Len(sessions) :
          (/\ callStatus' = "idle"
           /\ ByeSettled(s, TRUE) \/ ByeSettled(s, FALSE))
          => ~CanStillEstablish(s)']_vars

\* ------------------------------------------------------------------- C35
\* C35: when the auto-answer timer of invitation s fires after s has ended
\* or has been replaced as the handle's session, it starts no accept and
\* changes no state: it only goes away
C35_TimerAcceptsOnlyItsInvitation ==
    [][\A s \in 1..Len(sessions) :
          (/\ currentSessionRef # s \/ sessions[s].state = "Terminated"
           /\ autoAnswer(s))
          => pending' = Pop(Await("timer", s))]_vars

\* ------------------------------------------------------------------- C36
\* C36: when a disconnect completes, Call State is Idle and the Session
\* Handle is null, whatever the call was doing
C36_NoCallAfterDisconnect ==
    [][\A c \in 1..Len(clients) :
          (pending' # pending /\ handleConnectStopSettled(c, TRUE))
          => (callStatus' = "idle" /\ currentSessionRef' = NULL)]_vars

\* ------------------------------------------------------------------- C37
\* C37: one successful accept of an inbound session gives one attach. The
\* Established case of the listener attaches whenever the session becomes
\* Established, and the continuation of accept attaches when accept
\* resolves; so when accept resolves for the handle's session, that session
\* has not been reported Established
C37_OneAttachPerAccept ==
    [][\A s \in 1..Len(sessions), t \in Transports :
          (/\ currentSessionRef = s
           /\ HasListener(s)
           /\ AcceptSettled(s, TRUE, t))
          => sessions[s].state # "Established"]_vars

\* ------------------------------------------------------------------- C38
\* C38: the dialed number holds only characters the keyboard filter
\* accepts, whatever dial-pad clicks, keyboard edits and clears produced it
C38_DialedNumberPassesFilter ==
    validCharactersRegex(dialed)

\* ------------------------------------------------------------------- C31
\* C31: the call button offers originate exactly in Idle, and is then
\* enabled if and only if the dialed number is non-empty and Connection
\* State is Connected; it offers hangup, enabled, in Calling and InCall and
\* answer, enabled, in Ringing; in Ending it is disabled and its handler
\* is none of the call operations; a click runs what the button offers
C31_CallButton ==
    /\ [](/\ buttonContent.onClick = "handleCall" <=> callStatus = "idle"
          /\ callStatus = "idle"
                => (~buttonContent.disabled <=> (dialed # <<>> /\ connectionStatus = "connected"))
          /\ callStatus \in {"calling", "in-call"}
                => (buttonContent.onClick = "hangupCall" /\ ~buttonContent.disabled)
          /\ callStatus = "ringing"
                => (buttonContent.onClick = "answerCall" /\ ~buttonContent.disabled)
          /\ callStatus = "ending"
                => (/\ buttonContent.disabled
                    /\ buttonContent.onClick \notin {"handleCall", "hangupCall", "answerCall"}))
    /\ [][clicked' # clicked
            => (/\ clicked' = buttonContent.onClick
                /\ callStatus # "ending"
                /\ callStatus = "idle" => (dialed # <<>> /\ connectionStatus = "connected"))]_vars

\* the button has started an originate for a dialed number while connected
C31_Witness ==
    /\ callStatus = "idle"
    /\ connectionStatus = "connected"
    /\ dialed # <<>>
    /\ clicked = "handleCall"

==========================================================================
